---- MODULE Spec2Model ----
(***************************************************************************)
(* Model of fetch-scholar-stats.py: one run of the script as a program.    *)
(*                                                                         *)
(* Text is a sequence of one-character strings, so that str.strip() and    *)
(* the YAML scalar style are computed, not assumed.  A Python dict is a    *)
(* sequence of [key, val] entries in insertion order.  Python indices are  *)
(* 0-based: rows[i] of the source is rows[i + 1] here.                     *)
(***************************************************************************)
EXTENDS Integers, Sequences, FiniteSets, TLC

VARIABLES
    pc,          \* position of the run: see PcValues
    stats,       \* GoogleScholarStats.stats (ordered mapping)
    response,    \* the document requests.get returned, or NoResponse
    raised,      \* exception caught in fetch_stats / in flight from save_to_yaml
    fetchResult, \* value returned by fetch_stats
    mainResult,  \* value returned by main
    fs,          \* the file system: parent directory and data/scholar_stats.yml
    fs0,         \* the file system as the run found it
    stdout,      \* lines printed
    saveCalls,   \* number of calls of save_to_yaml
    exitCode     \* process exit status, NotExited while running

vars == <<pc, stats, response, raised, fetchResult, mainResult, fs, fs0,
          stdout, saveCalls, exitCode>>

----------------------------------------------------------------------------
(* Bounds of the explored inputs.                                          *)

\* largest number of <tr> in the statistics table (header row included)
MaxRows == 4
\* largest number of <td> in a table row
MaxCells == 3

----------------------------------------------------------------------------
(* Text helpers.                                                           *)

Whitespace == {" ", "\n", "\t", "\r"}

RECURSIVE LStrip(_)
LStrip(s) ==
    IF s = <<>> THEN <<>>
    ELSE IF Head(s) \in Whitespace THEN LStrip(Tail(s))
    ELSE s

RECURSIVE RStrip(_)
RStrip(s) ==
    IF s = <<>> THEN <<>>
    ELSE IF s[Len(s)] \in Whitespace THEN RStrip(SubSeq(s, 1, Len(s) - 1))
    ELSE s

\* str.strip()
Strip(s) == RStrip(LStrip(s))

\* str.ljust, as the format spec {:<w} pads
LJust(s, w) == IF Len(s) >= w THEN s ELSE s \o [i \in 1..(w - Len(s)) |-> " "]

DigitChar == <<"0", "1", "2", "3", "4", "5", "6", "7", "8", "9">>

Digits == {DigitChar[i] : i \in 1..10}

\* n in decimal, zero-padded to w digits (%Y, %m, %d, %H, %M, %S)
RECURSIVE ZeroPad(_, _)
ZeroPad(n, w) ==
    IF w = 0 THEN <<>>
    ELSE ZeroPad(n \div 10, w - 1) \o <<DigitChar[(n % 10) + 1]>>

\* datetime.strftime('%Y-%m-%d %H:%M:%S')
Strftime(t) ==
    ZeroPad(t.year, 4) \o <<"-">> \o ZeroPad(t.month, 2) \o <<"-">>
        \o ZeroPad(t.day, 2) \o <<" ">> \o ZeroPad(t.hour, 2) \o <<":">>
        \o ZeroPad(t.minute, 2) \o <<":">> \o ZeroPad(t.second, 2)

----------------------------------------------------------------------------
(* The ordered mapping self.stats.                                         *)

Keys(d) == {d[i].key : i \in 1..Len(d)}

\* k in d
Has(d, k) == \E i \in 1..Len(d) : d[i].key = k

Get(d, k) == d[CHOOSE i \in 1..Len(d) : d[i].key = k].val

\* dict.get(k, default)
GetOr(d, k, default) == IF Has(d, k) THEN Get(d, k) ELSE default

\* d[k] = v: a new key goes last, an existing key keeps its place
SetItem(d, k, v) ==
    IF Has(d, k)
    THEN [i \in 1..Len(d) |-> IF d[i].key = k THEN [key |-> k, val |-> v] ELSE d[i]]
    ELSE Append(d, [key |-> k, val |-> v])

RECURSIVE SetAll(_, _)
SetAll(d, entries) ==
    IF entries = <<>> THEN d
    ELSE SetAll(SetItem(d, Head(entries).key, Head(entries).val), Tail(entries))

----------------------------------------------------------------------------
(* Inputs: the documents the profile page may answer with.                 *)

None == <<>>

Some(x) == <<x>>

NA == <<"N", "/", "A">>

\* the run's configuration (main, user_id) and the request URL (fetch_stats)
user_id == "_zgKKS0AAAAJ"

base_url == "https://scholar.google.com/citations"

Url == <<base_url, "?user=", user_id, "&hl=en">>

Variants == {"plain", "padded"}

\* the text of a cell as the page holds it, before strip()
Pad(v, t) == IF v = "padded" THEN <<" ", "\n">> \o t \o <<"\t", " ">> ELSE t

\* the value in row r, cell c (0-based) of the canned profile
CannedCell(r, c) ==
    CASE r = 1 /\ c = 1 -> <<"1", "2", "3", "4">>
      [] r = 1 /\ c = 2 -> <<"9", "8", "7">>
      [] r = 2 /\ c = 1 -> <<"4", "5">>
      [] r = 2 /\ c = 2 -> <<"3", "2">>
      [] r = 3 /\ c = 1 -> <<"2", "0">>
      [] r = 3 /\ c = 2 -> <<"1", "5">>
      [] c = 0 -> <<>>
      [] OTHER -> <<"0">>

\* row r with n cells
MkRow(v, r, n) == [c \in 1..n |-> Pad(v, CannedCell(r, c - 1))]

\* the cell counts of n rows: the header row holds <th>, no <td>
CellCounts(n) == {f \in [1..n -> 0..MaxCells] : n >= 1 => f[1] = 0}

TablesOf(n) ==
    {[i \in 1..n |-> MkRow(v, i - 1, f[i])] : v \in Variants, f \in CellCounts(n)}

Tables == UNION {TablesOf(n) : n \in 0..MaxRows}

NameText == <<"\n", "S", " ", "W", " ">>

AffiliationText == <<"U", "n", "i", "\n">>

InterestTexts == << <<" ", "a", "i">>, <<"m", "l", " ">> >>

\* the identity part of the page
Profiles ==
    { [name |-> None, affiliation |-> None, interests |-> None],
      [name |-> Some(NameText), affiliation |-> Some(AffiliationText),
       interests |-> Some(InterestTexts)],
      [name |-> Some(NameText), affiliation |-> None, interests |-> Some(<<>>)] }

Documents ==
    {[table |-> t, name |-> p.name, affiliation |-> p.affiliation,
      interests |-> p.interests] :
        t \in {None} \cup {Some(rows) : rows \in Tables}, p \in Profiles}

\* the local time datetime.now() gives
Clocks ==
    { [year |-> 2025, month |-> 3, day |-> 9, hour |-> 7, minute |-> 5,
       second |-> 0] }

\* requests.RequestException: connection error, timeout, raise_for_status
RequestExceptions == {"ConnectionError", "Timeout", "HTTPError"}

----------------------------------------------------------------------------
(* fetch_stats: the extraction, as the list of assignments to self.stats   *)
(* that the try block performs, in program order.                          *)

Entry(k, v) == [key |-> k, val |-> v]

\* a row whose since-2019 cell is never replaced by the sentinel
RowFieldsNoSentinel(rows, i, allKey, sinceKey) ==
    IF Len(rows) > i /\ Len(rows[i + 1]) > 2
    THEN <<Entry(allKey, Strip(rows[i + 1][2])),
           Entry(sinceKey, Strip(rows[i + 1][3]))>>
    ELSE <<>>

\* a row read one cell too far to the left
RowFieldsShifted(rows, i, allKey, sinceKey) ==
    IF Len(rows) > i /\ Len(rows[i + 1]) >= 2
    THEN <<Entry(allKey, Strip(rows[i + 1][1])),
           Entry(sinceKey, Strip(rows[i + 1][2]))>>
    ELSE <<>>

\* a missing row treated like a missing cell
RowFieldsAbsentRowNA(rows, i, allKey, sinceKey) ==
    IF Len(rows) > i /\ Len(rows[i + 1]) >= 2
    THEN <<Entry(allKey, Strip(rows[i + 1][2])),
           Entry(sinceKey,
                 IF Len(rows[i + 1]) > 2 THEN Strip(rows[i + 1][3]) ELSE NA)>>
    ELSE IF Len(rows) > i THEN <<>>
    ELSE <<Entry(allKey, NA), Entry(sinceKey, NA)>>

\* lines 40-45, 48-53, 56-61: the fields row i of the table gives
RowFields(rows, i, allKey, sinceKey) ==
    LET row == IF Len(rows) > i THEN Some(rows[i + 1]) ELSE None
    IN  IF row # None
        THEN LET cells == row[1]
             IN  IF Len(cells) >= 2
                 THEN <<Entry(allKey, Strip(cells[2])),
                        Entry(sinceKey,
                              IF Len(cells) > 2 THEN Strip(cells[3]) ELSE NA)>>
                 ELSE <<>>
        ELSE <<>>

\* an absent table reported as six sentinels
TableFieldsAbsentNA(stats_table) ==
    IF stats_table # None
    THEN RowFields(stats_table[1], 1, "citations_all", "citations_since_2019")
         \o RowFields(stats_table[1], 2, "h_index_all", "h_index_since_2019")
         \o RowFields(stats_table[1], 3, "i10_index_all", "i10_index_since_2019")
    ELSE <<Entry("citations_all", NA), Entry("citations_since_2019", NA),
           Entry("h_index_all", NA), Entry("h_index_since_2019", NA),
           Entry("i10_index_all", NA), Entry("i10_index_since_2019", NA)>>

\* lines 35-61
TableFields(stats_table) ==
    IF stats_table # None
    THEN LET rows == stats_table[1]
         IN  RowFields(rows, 1, "citations_all", "citations_since_2019")
             \o RowFields(rows, 2, "h_index_all", "h_index_since_2019")
             \o RowFields(rows, 3, "i10_index_all", "i10_index_since_2019")
    ELSE <<>>

\* lines 64-66
NameFields(name_elem) ==
    IF name_elem # None THEN <<Entry("name", Strip(name_elem[1]))>> ELSE <<>>

\* lines 69-71
AffiliationFields(affiliation_elem) ==
    IF affiliation_elem # None
    THEN <<Entry("affiliation", Strip(affiliation_elem[1]))>>
    ELSE <<>>

\* lines 74-79
InterestsFields(interests_container) ==
    IF interests_container # None
    THEN LET anchors == interests_container[1]
         IN  <<Entry("interests", [i \in 1..Len(anchors) |-> Strip(anchors[i])])>>
    ELSE <<>>

\* lines 82-86
StampFields(url, now) ==
    <<Entry("profile_url", url), Entry("last_updated", Strftime(now))>>

\* lines 35-79: the assignments parsing the document makes
ParsedFields(doc) ==
    TableFields(doc.table) \o NameFields(doc.name)
        \o AffiliationFields(doc.affiliation)
        \o InterestsFields(doc.interests)

----------------------------------------------------------------------------
(* print_stats: the report written to standard output.                     *)

Line(tag, args) == [tag |-> tag, args |-> args]

\* sep.join(texts)
RECURSIVE Join(_, _)
Join(texts, sep) ==
    IF texts = <<>> THEN <<>>
    ELSE IF Len(texts) = 1 THEN texts[1]
    ELSE texts[1] \o sep \o Join(Tail(texts), sep)

\* lines 125-127: one row of the metrics table
MetricLine(d, label, allKey, sinceKey) ==
    Line(label, <<LJust(GetOr(d, allKey, NA), 15), LJust(GetOr(d, sinceKey, NA), 15)>>)

\* lines 110-135
ReportLines(d) ==
    IF d = <<>> THEN <<Line("No statistics available", <<>>)>>
    ELSE <<Line("GOOGLE SCHOLAR STATISTICS", <<>>)>>
         \o (IF Has(d, "name") THEN <<Line("Name", <<Get(d, "name")>>)>> ELSE <<>>)
         \o (IF Has(d, "affiliation")
             THEN <<Line("Affiliation", <<Get(d, "affiliation")>>)>> ELSE <<>>)
         \o <<Line("Metric", <<>>),
              MetricLine(d, "Citations", "citations_all", "citations_since_2019"),
              MetricLine(d, "h-index", "h_index_all", "h_index_since_2019"),
              MetricLine(d, "i10-index", "i10_index_all", "i10_index_since_2019")>>
         \o (IF Has(d, "interests") /\ Get(d, "interests") # <<>>
             THEN <<Line("Research Interests",
                         <<Join(Get(d, "interests"), <<",", " ">>)>>)>>
             ELSE <<>>)
         \o (IF Has(d, "last_updated")
             THEN <<Line("Last Updated", <<Get(d, "last_updated")>>)>> ELSE <<>>)
         \o <<Line("end of report", <<>>)>>

Printed(tag) == \E i \in 1..Len(stdout) : stdout[i].tag = tag

\* the position of the first line with this tag, 0 when there is none
FirstAt(tag) ==
    IF Printed(tag)
    THEN CHOOSE i \in 1..Len(stdout) :
            /\ stdout[i].tag = tag
            /\ \A j \in 1..(i - 1) : stdout[j].tag # tag
    ELSE 0

----------------------------------------------------------------------------
(* save_to_yaml: yaml.dump(stats, default_flow_style=False,                *)
(* sort_keys=False) as the lines of the block-style document.              *)

AllDigits(t) == t # <<>> /\ \A i \in 1..Len(t) : t[i] \in Digits

\* YYYY-MM-DD HH:MM:SS, which YAML would read back as a timestamp
LooksLikeTimestamp(t) ==
    /\ Len(t) = 19
    /\ t[5] = "-" /\ t[8] = "-" /\ t[11] = " " /\ t[14] = ":" /\ t[17] = ":"
    /\ \A i \in (1..19) \ {5, 8, 11, 14, 17} : t[i] \in Digits

\* a string that would not read back as a string is single-quoted
YamlScalar(t) ==
    IF t = <<>> \/ AllDigits(t) \/ LooksLikeTimestamp(t)
    THEN <<"'">> \o t \o <<"'">>
    ELSE t

\* one key of the mapping: a scalar, or a block sequence (interests)
DumpEntry(e) ==
    IF e.key = "interests"
    THEN IF e.val = <<>>
         THEN <<Entry("interests", <<"[", "]">>)>>
         ELSE <<Entry("interests", <<>>)>>
              \o [i \in 1..Len(e.val) |-> Entry("-", YamlScalar(e.val[i]))]
    ELSE <<Entry(e.key, YamlScalar(e.val))>>

\* keys in insertion order
RECURSIVE Dump(_)
Dump(d) == IF d = <<>> THEN <<>> ELSE DumpEntry(Head(d)) \o Dump(Tail(d))

----------------------------------------------------------------------------
(* The state machine.                                                      *)

PcValues ==
    {"constructed", "fetched", "presented", "saved", "returned", "uncaught",
     "exited"}

\* what an earlier run left in data/scholar_stats.yml
OldClock ==
    [year |-> 2024, month |-> 12, day |-> 31, hour |-> 23, minute |-> 59,
     second |-> 58]

OldLines == Dump(<<Entry("name", <<"S", " ", "W">>)>> \o StampFields(Url, OldClock))

\* a first run (no data directory yet), or a run over an earlier output
InitialFileSystems ==
    { [dir |-> FALSE, file |-> None],
      [dir |-> TRUE, file |-> Some(OldLines)] }

\* main, lines 140-145: the banner is printed and the instance constructed
Init ==
    /\ pc = "constructed"
    /\ stats = <<>>
    /\ response = None
    /\ raised = "none"
    /\ fetchResult = "NotReturned"
    /\ mainResult = "NotReturned"
    /\ fs \in InitialFileSystems
    /\ fs0 = fs
    /\ stdout = <<Line("Fetching Google Scholar statistics...", <<>>)>>
    /\ saveCalls = 0
    /\ exitCode = None

\* a transport error that lets the run go on
OnRequestExceptionGoOn == "True"

\* lines 90-92
OnRequestException == "False"

\* lines 93-95
OnException == "False"

\* fetch_stats, lines 19-95: the request fails (no document), or the
\* document is parsed and its assignments are made in order until a fault is
\* raised among them (caught at line 93) or all are made and the record is
\* stamped
fetch_stats ==
    /\ pc = "constructed"
    /\ \/ \E e \in RequestExceptions :
            /\ response' = None
            /\ raised' = e
            /\ stats' = stats
            /\ fetchResult' = OnRequestException
            /\ stdout' = Append(stdout, Line("Error fetching Google Scholar profile", <<e>>))
       \/ \E doc \in Documents :
            LET parsed == ParsedFields(doc)
            IN  \/ \E done \in 0..Len(parsed) :
                        /\ response' = Some(doc)
                        /\ stats' = SetAll(stats, SubSeq(parsed, 1, done))
                        /\ raised' = "Exception"
                        /\ fetchResult' = OnException
                        /\ stdout' = Append(stdout,
                                Line("Error parsing Google Scholar data", <<>>))
                \/ \E now \in Clocks :
                        /\ response' = Some(doc)
                        /\ stats' = SetAll(stats, parsed \o StampFields(Url, now))
                        /\ raised' = "none"
                        /\ fetchResult' = "True"
                        /\ stdout' = stdout
    /\ pc' = "fetched"
    /\ UNCHANGED <<mainResult, fs, fs0, saveCalls, exitCode>>

\* the report is printed whatever fetch_stats returned
MayPresentAlways == pc = "fetched"

\* main, line 147: the branch taken when fetch_stats returned True
MayPresent == pc = "fetched" /\ fetchResult = "True"

\* main, lines 147-149
print_stats ==
    /\ MayPresent
    /\ stdout' = stdout \o ReportLines(stats)
    /\ pc' = "presented"
    /\ UNCHANGED <<stats, response, raised, fetchResult, mainResult, fs, fs0,
                   saveCalls, exitCode>>

\* a fault of the writer that is swallowed
OnSaveFaultSwallowed == "saved"

\* lines 97-106, 153: no handler in save_to_yaml nor in main
OnSaveFault == "uncaught"

\* save_to_yaml, lines 97-106: mkdir of the parents, open for writing (which
\* truncates), the dump, the message.  A fault leaves what was done so far.
save_to_yaml ==
    /\ pc = "presented"
    /\ saveCalls' = saveCalls + 1
    /\ LET lines == Dump(stats)
       IN  \/ \* mkdir faults
              /\ ~fs.dir
              /\ fs' = fs
              /\ raised' = "OSError"
              /\ pc' = OnSaveFault
              /\ stdout' = stdout
           \/ \* open faults
              /\ fs' = [fs EXCEPT !.dir = TRUE]
              /\ raised' = "OSError"
              /\ pc' = OnSaveFault
              /\ stdout' = stdout
           \/ \* the dump faults after some of the lines reached the file
              \E written \in 0..Len(lines) :
                /\ fs' = [dir |-> TRUE, file |-> Some(SubSeq(lines, 1, written))]
                /\ raised' = "OSError"
                /\ pc' = OnSaveFault
                /\ stdout' = stdout
           \/ \* no fault
              /\ fs' = [dir |-> TRUE, file |-> Some(lines)]
              /\ raised' = raised
              /\ pc' = "saved"
              /\ stdout' = Append(stdout, Line("Saved Google Scholar stats", <<>>))
    /\ UNCHANGED <<stats, response, fetchResult, mainResult, fs0, exitCode>>

\* main, lines 155-156
main_success ==
    /\ pc = "saved"
    /\ stdout' = Append(stdout,
            Line("Google Scholar stats successfully fetched and saved!", <<>>))
    /\ mainResult' = "True"
    /\ pc' = "returned"
    /\ UNCHANGED <<stats, response, raised, fetchResult, fs, fs0, saveCalls,
                   exitCode>>

\* main, lines 157-159
main_failure ==
    /\ pc = "fetched" /\ fetchResult # "True"
    /\ stdout' = Append(stdout,
            Line("Failed to fetch Google Scholar statistics", <<>>))
    /\ mainResult' = "False"
    /\ pc' = "returned"
    /\ UNCHANGED <<stats, response, raised, fetchResult, fs, fs0, saveCalls,
                   exitCode>>

\* lines 162-163: main() is called and its value dropped
ExitStatus(result) == 0

\* lines 162-163: the script ends after main returned
exit_normally ==
    /\ pc = "returned"
    /\ exitCode' = Some(ExitStatus(mainResult))
    /\ pc' = "exited"
    /\ UNCHANGED <<stats, response, raised, fetchResult, mainResult, fs, fs0,
                   stdout, saveCalls>>

\* lines 162-163: an exception leaves main; the interpreter prints the
\* traceback and exits with status 1
exit_uncaught ==
    /\ pc = "uncaught"
    /\ exitCode' = Some(1)
    /\ pc' = "exited"
    /\ UNCHANGED <<stats, response, raised, fetchResult, mainResult, fs, fs0,
                   stdout, saveCalls>>

Next ==
    \/ fetch_stats
    \/ print_stats
    \/ save_to_yaml
    \/ main_success
    \/ main_failure
    \/ exit_normally
    \/ exit_uncaught

Spec == Init /\ [][Next]_vars

TypeOK ==
    /\ pc \in PcValues
    /\ fetchResult \in {"NotReturned", "True", "False"}
    /\ mainResult \in {"NotReturned", "True", "False"}
    /\ saveCalls \in 0..1

----------------------------------------------------------------------------
(* Vocabulary of the properties.                                           *)

\* the two keys of metric row r (1, 2, 3), as the specification names them
AllKey(r) ==
    CASE r = 1 -> "citations_all" [] r = 2 -> "h_index_all" [] r = 3 -> "i10_index_all"

SinceKey(r) ==
    CASE r = 1 -> "citations_since_2019"
      [] r = 2 -> "h_index_since_2019"
      [] r = 3 -> "i10_index_since_2019"

NumericKeys == {AllKey(r) : r \in 1..3} \cup {SinceKey(r) : r \in 1..3}

StampKeys == {"profile_url", "last_updated"}

Chars == Digits \cup Whitespace \cup {"N", "/", "A"}

IsText(v) == v \in Seq(Chars)

\* x is t without its leading and trailing whitespace: x lies in t, only
\* whitespace lies around it, and x neither starts nor ends with whitespace
IsTrimOf(x, t) ==
    /\ Len(x) <= Len(t)
    /\ \E lead \in 0..(Len(t) - Len(x)) :
          /\ \A k \in 1..Len(x) : x[k] = t[lead + k]
          /\ \A k \in 1..Len(t) : (k <= lead \/ k > lead + Len(x)) => t[k] \in Whitespace
    /\ x # <<>> => (x[1] \notin Whitespace /\ x[Len(x)] \notin Whitespace)

FetchReturned == pc # "constructed"

FetchSucceeded == FetchReturned /\ fetchResult = "True"

TableFound == response # None /\ response[1].table # None

\* the <tr> of the statistics table, when it was found
Rows == response[1].table[1]

RowExists(r) == TableFound /\ Len(Rows) > r

Presented ==
    Printed("GOOGLE SCHOLAR STATISTICS") \/ Printed("No statistics available")

SuccessBanner == "Google Scholar stats successfully fetched and saved!"

----------------------------------------------------------------------------
(* The properties.                                                         *)

\* C1: when the HTTP fetch fails with a transport error, fetch_stats returns
\* False, main returns False and never True, save_to_yaml is never called and
\* the output file (and its directory) stay exactly as the run found them.
C1_TransportFailureLeavesFile ==
    raised \in RequestExceptions =>
        /\ fetchResult = "False"
        /\ saveCalls = 0
        /\ fs = fs0
        /\ pc \in {"fetched", "returned", "exited"}
        /\ mainResult # "True"
        /\ pc \in {"returned", "exited"} => mainResult = "False"

C1_Witness ==
    /\ pc = "exited"
    /\ raised = "HTTPError"
    /\ mainResult = "False"
    /\ fs0.file = Some(OldLines)
    /\ fs.file = Some(OldLines)

\* C2: after fetch_stats has returned, True or False, the record is empty or
\* holds both profile_url and last_updated.
C2_RecordEmptyOrStamped ==
    FetchReturned => (stats = <<>> \/ StampKeys \subseteq Keys(stats))

\* C3: in every state of a run the output file holds what it held before
\* the run, or the complete serialization of a record with profile_url and
\* last_updated.
C3_NoPartialRecordPersisted ==
    \/ fs.file = fs0.file
    \/ /\ StampKeys \subseteq Keys(stats)
       /\ fs.file = Some(Dump(stats))

\* C4, as claimed: after a successful fetch_stats, every metric row that
\* exists, whatever its number of cells, has both of its keys in the record,
\* as strings.
C4_ExistingRowHasBothFields ==
    FetchSucceeded =>
        \A r \in 1..3 :
            RowExists(r) =>
                /\ Has(stats, AllKey(r)) /\ IsText(Get(stats, AllKey(r)))
                /\ Has(stats, SinceKey(r)) /\ IsText(Get(stats, SinceKey(r)))

\* C4, amended: after a successful fetch_stats, every metric row that exists
\* and has at least two cells has both of its keys in the record, as strings,
\* the since-2019 one being "N/A" when there is no third cell; a row that
\* exists with fewer than two cells gives neither key.
C4_PopulatedRowHasBothFields ==
    FetchSucceeded =>
        \A r \in 1..3 :
            RowExists(r) =>
                IF Len(Rows[r + 1]) >= 2
                THEN /\ Has(stats, AllKey(r)) /\ IsText(Get(stats, AllKey(r)))
                     /\ Has(stats, SinceKey(r)) /\ IsText(Get(stats, SinceKey(r)))
                     /\ Len(Rows[r + 1]) = 2 => Get(stats, SinceKey(r)) = NA
                ELSE ~Has(stats, AllKey(r)) /\ ~Has(stats, SinceKey(r))

C4_Witness ==
    /\ FetchSucceeded
    /\ RowExists(3)
    /\ Len(Rows[2]) = 2 /\ Len(Rows[3]) = 3 /\ Len(Rows[4]) = 1
    /\ Get(stats, "citations_since_2019") = NA
    /\ Has(stats, "h_index_since_2019")
    /\ ~Has(stats, "i10_index_all")

\* C5: row 1 feeds the citations keys, row 2 the h_index keys, row 3 the
\* i10_index keys; for a row with a second cell the _all field is the trimmed
\* text of the second cell and the _since_2019 field the trimmed text of the
\* third cell, or "N/A" when there is none; with three full rows the record
\* holds exactly the six numeric keys, with the values of the source cells.
C5_RowToFieldMapping ==
    FetchSucceeded /\ TableFound =>
        /\ \A r \in 1..3 :
              (RowExists(r) /\ Len(Rows[r + 1]) >= 2) =>
                  /\ Has(stats, AllKey(r)) /\ Has(stats, SinceKey(r))
                  /\ IsTrimOf(Get(stats, AllKey(r)), Rows[r + 1][2])
                  /\ IF Len(Rows[r + 1]) > 2
                     THEN IsTrimOf(Get(stats, SinceKey(r)), Rows[r + 1][3])
                     ELSE Get(stats, SinceKey(r)) = NA
        /\ (\A r \in 1..3 : RowExists(r) /\ Len(Rows[r + 1]) >= 3) =>
              /\ Keys(stats) \cap NumericKeys = NumericKeys
              /\ Cardinality({i \in 1..Len(stats) : stats[i].key \in NumericKeys}) = 6
              /\ Get(stats, "citations_all") = <<"1", "2", "3", "4">>
              /\ Get(stats, "citations_since_2019") = <<"9", "8", "7">>
              /\ Get(stats, "h_index_all") = <<"4", "5">>
              /\ Get(stats, "h_index_since_2019") = <<"3", "2">>
              /\ Get(stats, "i10_index_all") = <<"2", "0">>
              /\ Get(stats, "i10_index_since_2019") = <<"1", "5">>

C5_Witness ==
    /\ FetchSucceeded
    /\ RowExists(3)
    /\ \A r \in 1..3 : Len(Rows[r + 1]) = 3
    /\ Rows[2][2] # <<"1", "2", "3", "4">>
    /\ Get(stats, "citations_all") = <<"1", "2", "3", "4">>
    /\ Get(stats, "i10_index_since_2019") = <<"1", "5">>

\* C6, as claimed: when the table is found but too short for a metric row,
\* neither key of that row is in the record, the keys of every row that does
\* exist are set, and fetch_stats returns True (no fault being raised).
C6_MissingRowOmittedOthersSet ==
    (FetchReturned /\ TableFound) =>
        /\ \A r \in 1..3 :
              ~RowExists(r) => (~Has(stats, AllKey(r)) /\ ~Has(stats, SinceKey(r)))
        /\ raised = "none" =>
              /\ fetchResult = "True"
              /\ \A q \in 1..3 :
                    RowExists(q) => (Has(stats, AllKey(q)) /\ Has(stats, SinceKey(q)))

\* C6, amended: when the table is found but too short for a metric row,
\* neither key of that row is in the record (absent, not "N/A"), the keys of
\* every row that exists with at least two cells are set, and fetch_stats
\* returns True (no fault being raised).
C6_MissingRowOmittedPopulatedSet ==
    (FetchReturned /\ TableFound) =>
        /\ \A r \in 1..3 :
              ~RowExists(r) => (~Has(stats, AllKey(r)) /\ ~Has(stats, SinceKey(r)))
        /\ raised = "none" =>
              /\ fetchResult = "True"
              /\ \A q \in 1..3 :
                    (RowExists(q) /\ Len(Rows[q + 1]) >= 2) =>
                        (Has(stats, AllKey(q)) /\ Has(stats, SinceKey(q)))

C6_Witness ==
    /\ FetchSucceeded
    /\ TableFound
    /\ Len(Rows) = 3
    /\ Len(Rows[2]) = 3 /\ Len(Rows[3]) = 2
    /\ Has(stats, "citations_all") /\ Has(stats, "h_index_since_2019")
    /\ ~Has(stats, "i10_index_all") /\ ~Has(stats, "i10_index_since_2019")

\* C7: a document fetched without the statistics table, no fault being
\* raised: fetch_stats returns True, none of the six numeric keys is in the
\* record, profile_url (the request URL) and last_updated are set, main goes
\* on to present and write the record, and returns True.
C7_NoTableStillSucceeds ==
    (response # None /\ response[1].table = None /\ raised = "none") =>
        /\ fetchResult = "True"
        /\ Keys(stats) \cap NumericKeys = {}
        /\ StampKeys \subseteq Keys(stats)
        /\ Get(stats, "profile_url") = Url
        /\ pc \in {"fetched", "presented", "saved", "returned", "exited"}
        /\ pc = "fetched" => MayPresent
        /\ pc \in {"saved", "returned", "exited"} =>
              (Presented /\ fs.file = Some(Dump(stats)))
        /\ pc \in {"returned", "exited"} =>
              (mainResult = "True" /\ Printed(SuccessBanner))

C7_Witness ==
    /\ response # None /\ response[1].table = None
    /\ response[1].name # None
    /\ pc = "exited"
    /\ mainResult = "True"
    /\ fs0.file = None
    /\ fs.file = Some(Dump(stats))
    /\ Keys(stats) = {"name", "interests", "profile_url", "last_updated"}

\* C8: the steps of main occur in the order fetch, extract, present,
\* persist, signal success: the record is presented only after fetch_stats
\* returned True, save_to_yaml is called only after the presentation and at
\* most once, main returns True only after the write has completed, and after
\* a failed fetch_stats there is no presentation, no write, and main returns
\* False.
C8_EntryPointOrder ==
    /\ saveCalls <= 1
    /\ Presented => (FetchSucceeded /\ StampKeys \subseteq Keys(stats))
    /\ saveCalls = 1 => Presented
    /\ (FetchReturned /\ fetchResult = "False") =>
          /\ ~Presented
          /\ saveCalls = 0
          /\ fs = fs0
          /\ mainResult # "True"
          /\ pc \in {"returned", "exited"} => mainResult = "False"
    /\ mainResult = "True" =>
          /\ saveCalls = 1
          /\ fs.file = Some(Dump(stats))
          /\ 0 < FirstAt("GOOGLE SCHOLAR STATISTICS")
          /\ FirstAt("GOOGLE SCHOLAR STATISTICS") < FirstAt("Saved Google Scholar stats")
          /\ FirstAt("Saved Google Scholar stats") < FirstAt(SuccessBanner)
    /\ mainResult # "NotReturned" => FetchReturned

C8_Witness ==
    /\ pc = "exited"
    /\ mainResult = "True"
    /\ saveCalls = 1
    /\ TableFound
    /\ Printed("Research Interests")
    /\ FirstAt("end of report") < FirstAt("Saved Google Scholar stats")

\* C9: a filesystem fault in save_to_yaml (mkdir, open or write) is caught
\* neither by save_to_yaml nor by main: main does not return, the success
\* banner is not printed, and the process ends with a non-zero status.
C9_SaveFaultPropagates ==
    raised = "OSError" =>
        /\ pc \in {"uncaught", "exited"}
        /\ mainResult = "NotReturned"
        /\ ~Printed(SuccessBanner)
        /\ ~Printed("Saved Google Scholar stats")
        /\ pc = "exited" => (exitCode # None /\ exitCode[1] # 0)

C9_Witness ==
    /\ raised = "OSError"
    /\ pc = "exited"
    /\ exitCode = Some(1)
    /\ fs.file # None /\ fs.file # Some(Dump(stats))

\* C10: the process exits with the success status if and only if main
\* returned True.
C10_ExitStatusFollowsResult ==
    pc = "exited" => ((exitCode = Some(0)) <=> (mainResult = "True"))

====
